---- MODULE Spec2Model ----
(***************************************************************************)
(* A model of APIMessage (src/src/structures/APIMessage.js): the builder   *)
(* that turns the arguments of a send into the payload (data) and the      *)
(* attachment list (files) of one request, and that splits a payload       *)
(* whose content is a sequence of chunks into one builder per chunk.       *)
(*                                                                         *)
(* JavaScript values are tagged records, so that undefined, null, a        *)
(* string, a number, a boolean, an array and an object are all distinct.   *)
(* A string is a sequence of one-character strings.  An object is a        *)
(* function from its own keys to values: a key whose value is undefined    *)
(* is still a key.                                                         *)
(***************************************************************************)
EXTENDS Integers, Sequences, FiniteSets, TLC

VARIABLES
    target,     \* this.target
    options,    \* this.options
    data,       \* this.data (Null until resolveData has stored the payload)
    files,      \* this.files (Null until a resolveFiles call has stored the list)
    error,      \* the error the last resolveData/split call threw, or "none"
    built,      \* how many times resolveData has built and stored a payload
    calls,      \* the resolveFiles calls started so far, each with its promises
    loads,      \* per declared file: how many times it was handed to the loader
    stores,     \* how many times this.files is assigned has been executed
    splits      \* the results of the split() calls made so far, in call order

vars == <<target, options, data, files, error, built, calls, loads, stores, splits>>

-----------------------------------------------------------------------------
(* Bounds of the model.                                                    *)

\* resolveFiles() calls that may be started on the instance (overlapping or not).
MaxCalls == 2
\* split() calls that may be made on the instance.
MaxSplits == 2

-----------------------------------------------------------------------------
(* JavaScript values.                                                      *)

Undef == [t |-> "undefined"]
Null == [t |-> "null"]
Str(s) == [t |-> "string", s |-> s]
Num(n) == [t |-> "number", n |-> n, frac |-> 0]
Bool(b) == [t |-> "boolean", b |-> b]
Arr(a) == [t |-> "array", a |-> a]
Obj(o) == [t |-> "object", o |-> o]
\* A Buffer and a readable stream (an object with a pipe function and a path).
Buf(id) == [t |-> "buffer", id |-> id]
Stream(p) == [t |-> "stream", path |-> p]
\* A Message instance held as a reference (options.reply.messageReference).
Msg(id) == [t |-> "message", id |-> id]
\* A thrown error: what an operation yields in place of its value.
Throw(e) == [t |-> "throw", e |-> e]

IsThrow(v) == v.t = "throw"

\* typeof v
TypeOf(v) ==
    CASE v.t = "undefined" -> "undefined"
      [] v.t = "string" -> "string"
      [] v.t = "number" -> "number"
      [] v.t = "boolean" -> "boolean"
      [] OTHER -> "object"

\* ToBoolean(v): the truthiness of a value.
Truthy(v) ==
    CASE v.t = "undefined" -> FALSE
      [] v.t = "null" -> FALSE
      [] v.t = "string" -> v.s # <<>>
      [] v.t = "number" -> ~(v.n = 0 /\ v.frac = 0)
      [] v.t = "boolean" -> v.b
      [] OTHER -> TRUE

\* obj.key on an object value: undefined when the key is not there.
Get(obj, key) ==
    IF obj.t = "object" /\ key \in DOMAIN obj.o THEN obj.o[key] ELSE Undef

\* The own keys of an object value.
Keys(obj) == DOMAIN obj.o

\* { ...obj, key: value }
With(o, key, value) ==
    [k \in DOMAIN o \cup {key} |-> IF k = key THEN value ELSE o[k]]

\* delete obj[key]
Without(o, key) == [k \in DOMAIN o \ {key} |-> o[k]]

\* a || b
OrElse(a, b) == IF Truthy(a) THEN a ELSE b

\* a ?? b
Coalesce(a, b) == IF a.t \in {"undefined", "null"} THEN b ELSE a

-----------------------------------------------------------------------------
(* Strings.                                                                *)

NL == "\n"
\* The backtick character and the zero-width space, as named characters.
TICK == "tick"
ZWSP == "zwsp"
FENCE == <<TICK, TICK, TICK>>

\* Util.cleanCodeBlockContent: a zero-width space goes into every triple backtick.
RECURSIVE cleanCodeBlockContent(_)
cleanCodeBlockContent(text) ==
    IF text = <<>> THEN <<>>
    ELSE IF Len(text) >= 3 /\ SubSeq(text, 1, 3) = FENCE
         THEN <<TICK, ZWSP, TICK, TICK>>
                  \o cleanCodeBlockContent(SubSeq(text, 4, Len(text)))
         ELSE <<Head(text)>> \o cleanCodeBlockContent(Tail(text))

\* text.split(char), for a one-character separator.
RECURSIVE StrSplit(_, _, _)
StrSplit(text, char, piece) ==
    IF text = <<>> THEN <<piece>>
    ELSE IF Head(text) = char
         THEN <<piece>> \o StrSplit(Tail(text), char, <<>>)
         ELSE StrSplit(Tail(text), char, Append(piece, Head(text)))

\* Util.basename of a path: what follows the last "/", its query string cut off.
RECURSIVE CutQuery(_)
CutQuery(text) ==
    IF text = <<>> \/ Head(text) = "?" THEN <<>>
    ELSE <<Head(text)>> \o CutQuery(Tail(text))

basename(path) ==
    LET parts == StrSplit(path, "/", <<>>) IN CutQuery(parts[Len(parts)])

\* Util.verifyString(data, RangeError, errorMessage, allowEmpty)
verifyString(v, errorMessage, allowEmpty) ==
    IF v.t # "string" THEN Throw(errorMessage)
    ELSE IF ~allowEmpty /\ v.s = <<>> THEN Throw(errorMessage)
    ELSE v

\* The default maximum length of one chunk (Util.splitMessage).
DefaultMaxLength == 2000

\* The loop of Util.splitMessage over the pieces of the text.
RECURSIVE SplitLoop(_, _, _, _, _, _, _)
SplitLoop(pieces, i, msg, messages, cfgMax, cfgChar, fix) ==
    IF i > Len(pieces) THEN SelectSeq(Append(messages, msg), LAMBDA m : m # <<>>)
    ELSE
        LET chunk == pieces[i]
            full == msg # <<>>
                    /\ Len(msg \o <<cfgChar>> \o chunk \o fix.append) > cfgMax
            msgs1 == IF full THEN Append(messages, msg \o fix.append) ELSE messages
            msg1 == IF full THEN fix.prepend ELSE msg
            sep == IF msg1 # <<>> /\ msg1 # fix.prepend THEN <<cfgChar>> ELSE <<>>
        IN SplitLoop(pieces, i + 1, msg1 \o sep \o chunk, msgs1, cfgMax, cfgChar, fix)

\* Util.splitMessage(text, { maxLength, char, prepend, append })
splitMessage(text, splitOptions) ==
    LET maxLength == IF Get(splitOptions, "maxLength") = Undef
                     THEN DefaultMaxLength ELSE Get(splitOptions, "maxLength").n
        char == IF Get(splitOptions, "char") = Undef
                THEN NL ELSE Head(Get(splitOptions, "char").s)
        prepend == IF Get(splitOptions, "prepend") = Undef
                   THEN <<>> ELSE Get(splitOptions, "prepend").s
        append == IF Get(splitOptions, "append") = Undef
                  THEN <<>> ELSE Get(splitOptions, "append").s
        pieces == StrSplit(text, char, <<>>)
    IN IF Len(text) <= maxLength THEN Arr(<<Str(text)>>)
       ELSE IF \E i \in 1..Len(pieces) : Len(pieces[i]) > maxLength
            THEN Throw("SPLIT_MAX_LEN")
            ELSE LET out == SplitLoop(pieces, 1, <<>>, <<>>, maxLength, char,
                                      [prepend |-> prepend, append |-> append])
                 IN Arr([k \in 1..Len(out) |-> Str(out[k])])

-----------------------------------------------------------------------------
(* APIMessage.makeContent                                                  *)

\* { ...this.options.split }: the own keys of an object, none of a boolean.
SpreadSplit(split) == IF split.t = "object" THEN split ELSE Obj(<<>>)

\* isSplit and isCode
isSplit(opts) == Get(opts, "split") # Undef /\ Get(opts, "split") # Bool(FALSE)
isCode(opts) == Get(opts, "code") # Undef /\ Get(opts, "code") # Bool(FALSE)

\* codeName
CodeName(opts) == IF Get(opts, "code").t = "string" THEN Get(opts, "code").s ELSE <<>>

\* The content inside its code fence.
Fenced(codeName, text) ==
    FENCE \o codeName \o <<NL>> \o cleanCodeBlockContent(text) \o <<NL>> \o FENCE

\* splitOptions with the fence put into its prepend and append.
FencedSplit(codeName, splitOptions) ==
    Obj(With(With(splitOptions.o,
                  "prepend",
                  Str(OrElse(Get(splitOptions, "prepend"), Str(<<>>)).s
                          \o FENCE \o codeName \o <<NL>>)),
             "append",
             Str(<<NL>> \o FENCE \o OrElse(Get(splitOptions, "append"), Str(<<>>)).s)))

\* makeContent from the point where content is a string.
FormatString(opts, text) ==
    IF text = <<>> THEN Str(text)
    ELSE IF isCode(opts)
         THEN IF isSplit(opts)
              THEN splitMessage(Fenced(CodeName(opts), text),
                                FencedSplit(CodeName(opts),
                                            SpreadSplit(Get(opts, "split"))))
              ELSE Str(Fenced(CodeName(opts), text))
         ELSE IF isSplit(opts)
              THEN splitMessage(text, SpreadSplit(Get(opts, "split")))
              ELSE Str(text)

\* The content before formatting: '' for null, the verified string, or undefined.
RawContent(opts) ==
    IF Get(opts, "content") = Null THEN Str(<<>>)
    ELSE IF Get(opts, "content") # Undef
         THEN verifyString(Get(opts, "content"), "MESSAGE_CONTENT_TYPE", FALSE)
         ELSE Undef

\* The rest of makeContent, given that content.
FormatContent(opts, content) ==
    IF content.t # "string" THEN content ELSE FormatString(opts, content.s)

makeContent(opts) == FormatContent(opts, RawContent(opts))

-----------------------------------------------------------------------------
(* The target's facets (APIMessage.isWebhook, isUser, isMessage,           *)
(* isInteraction): each an instanceof test on the target's class.          *)

isWebhook(tg) == tg.class \in {"Webhook", "WebhookClient"}
isUser(tg) == tg.class \in {"User", "GuildMember"}
isMessage(tg) == tg.class = "Message"
isInteraction(tg) == tg.class \in {"Interaction", "InteractionWebhook"}

-----------------------------------------------------------------------------
(* Collaborators of resolveData.                                           *)

\* new MessageEmbed(e).toJSON(): the wire form of an embed; its files are not in it.
EmbedToJSON(e) ==
    Obj([title |-> Get(e, "title"), type |-> Str(<<"r">>)])

\* BaseMessageComponent.create(c).toJSON(): the wire form of a component.
RECURSIVE ComponentToJSON(_)
ComponentToJSON(c) ==
    IF Get(c, "components") = Undef THEN Obj([type |-> Get(c, "type")])
    ELSE LET inner == Get(c, "components").a
         IN Obj([type |-> Get(c, "type"),
                 components |->
                     Arr([k \in 1..Len(inner) |-> ComponentToJSON(inner[k])])])

\* MessageComponentTypes.ACTION_ROW and BUTTON
ACTION_ROW == Num(1)
BUTTON == Num(2)

\* MessageFlags.FLAGS.EPHEMERAL (1 << 6)
EPHEMERAL == 64

\* a | b on non-negative integers.
RECURSIVE BitOr(_, _)
BitOr(a, b) ==
    IF a = 0 THEN b
    ELSE IF b = 0 THEN a
    ELSE (IF a % 2 = 1 \/ b % 2 = 1 THEN 1 ELSE 0) + 2 * BitOr(a \div 2, b \div 2)

\* new MessageFlags(bits).bitfield: BitField.resolve of a number or of an array of
\* numbers (the inputs drawn here; it rejects what is neither a number, a flag
\* name nor an array of these).
RECURSIVE ResolveBits(_)
ResolveBits(bits) ==
    CASE bits.t = "number" /\ bits.frac = 0 /\ bits.n >= 0 -> bits.n
      [] bits.t = "array" ->
            IF bits.a = <<>> THEN 0
            ELSE BitOr(ResolveBits(Head(bits.a)), ResolveBits(Arr(Tail(bits.a))))
      [] OTHER -> 0

\* Util.cloneObject(obj): a new object with the same own keys and values.
cloneObject(obj) == Obj([k \in DOMAIN obj.o |-> obj.o[k]])

\* The identifier a reference stands for: a Message instance's id, or a string.
RefID(ref) ==
    CASE ref.t = "message" -> Str(ref.id)
      [] ref.t = "string" -> ref
      [] OTHER -> Null

\* MessageManager.resolveID(reference): the identifier when the collection resolves
\* the reference, null otherwise.
resolveID(messages, ref) ==
    IF RefID(ref) # Null /\ RefID(ref).s \in messages THEN RefID(ref) ELSE Null

-----------------------------------------------------------------------------
(* APIMessage.resolveData, in the order of its statements.                 *)

\* The nonce check: a number must be an integer, anything else a string.
NonceError(opts) ==
    LET nonce == Get(opts, "nonce")
    IN nonce # Undef
       /\ IF nonce.t = "number" THEN nonce.frac # 0 ELSE nonce.t # "string"

\* embedLikes: options.embeds for a webhook or an interaction, options.embed otherwise.
EmbedLikes(tg, opts) ==
    IF isInteraction(tg) \/ isWebhook(tg)
    THEN IF Truthy(Get(opts, "embeds")) THEN Get(opts, "embeds").a ELSE <<>>
    ELSE IF Truthy(Get(opts, "embed")) THEN <<Get(opts, "embed")>> ELSE <<>>

\* embeds = embedLikes.map(e => new MessageEmbed(e).toJSON())
Embeds(tg, opts) ==
    LET likes == EmbedLikes(tg, opts)
    IN [k \in 1..Len(likes) |-> EmbedToJSON(likes[k])]

\* components = this.options.components?.map(...)
Components(opts) ==
    LET cs == Get(opts, "components")
    IN IF cs \in {Undef, Null} THEN Undef
       ELSE Arr([k \in 1..Len(cs.a) |->
                ComponentToJSON(IF cs.a[k].t = "array"
                                THEN Obj([type |-> ACTION_ROW, components |-> cs.a[k]])
                                ELSE cs.a[k])])

\* username: only for a webhook, the option or else the webhook's name.
Username(tg, opts) ==
    IF isWebhook(tg) THEN OrElse(Get(opts, "username"), tg.name) ELSE Undef

\* avatarURL: only for a webhook, and only when the option is truthy.
AvatarURL(tg, opts) ==
    IF isWebhook(tg) /\ Truthy(Get(opts, "avatarURL")) THEN Get(opts, "avatarURL")
    ELSE Undef

\* Flags with a truthiness test in place of != null: explicit flags of 0 are taken
\* for no flags and the message's are inherited.
Flags_Falsy(tg, opts) ==
    IF isMessage(tg)
    THEN IF Truthy(Get(opts, "flags"))
         THEN Num(ResolveBits(Get(opts, "flags")))
         ELSE Num(tg.flags.bitfield)
    ELSE IF isInteraction(tg) /\ Truthy(Get(opts, "ephemeral"))
         THEN Num(EPHEMERAL)
         ELSE Undef

\* flags
Flags(tg, opts) ==
    IF isMessage(tg)
    THEN IF Get(opts, "flags") \notin {Undef, Null}
         THEN Num(ResolveBits(Get(opts, "flags")))
         ELSE Num(tg.flags.bitfield)
    ELSE IF isInteraction(tg) /\ Truthy(Get(opts, "ephemeral"))
         THEN Num(EPHEMERAL)
         ELSE Undef

\* The allowed-mentions policy resolveData starts from: the option, or the client's
\* default when the option is undefined.
MentionsSource(tg, opts) ==
    IF Get(opts, "allowedMentions") = Undef
    THEN tg.client.options.allowedMentions
    ELSE Get(opts, "allowedMentions")

\* The renaming of repliedUser to replied_user, done on a clone. wire is the value
\* resolveData goes on with, source the object it started from as it is afterwards.
WireMentions(am) ==
    IF Truthy(am)
    THEN LET clone == cloneObject(am)
             renamed == With(clone.o, "replied_user", Get(clone, "repliedUser"))
         IN [wire |-> Obj(Without(renamed, "repliedUser")), source |-> am]
    ELSE [wire |-> am, source |-> am]

\* ReplyCollection without the test for a message target.
ReplyCollection_Own(tg) == tg.messages

\* The message collection the reply is resolved through.
ReplyCollection(tg) ==
    IF isMessage(tg) THEN tg.channel.messages ELSE tg.messages

\* The reference object built for a resolved identifier, undefined for none.
ReferenceFor(message_id, reply) ==
    IF Truthy(message_id)
    THEN Obj([message_id |-> message_id,
              fail_if_not_exists |->
                  Coalesce(Get(reply, "failIfNotExists"), Bool(TRUE))])
    ELSE Undef

\* message_reference, for the value of options.reply: reading a property of null
\* throws a TypeError.
ReplyReference(tg, reply) ==
    IF TypeOf(reply) # "object" THEN Undef
    ELSE IF reply = Null THEN Throw("TypeError")
    ELSE ReferenceFor(resolveID(ReplyCollection(tg), Get(reply, "messageReference")),
                      reply)

\* message_reference
MessageReference(tg, opts) == ReplyReference(tg, Get(opts, "reply"))

\* PayloadMentions without the suppression: the policy is sent whatever the payload
\* carries.
PayloadMentions_Always(content, message_reference, allowedMentions) == allowedMentions

\* allowed_mentions of the payload
PayloadMentions(content, message_reference, allowedMentions) ==
    IF content = Undef /\ message_reference = Undef THEN Undef ELSE allowedMentions

\* embeds[0]
First(embeds) == IF embeds = <<>> THEN Undef ELSE embeds[1]

\* PayloadEmbed without the test of the dialect: the embed option populates embed
\* for a webhook and an interaction too.
PayloadEmbed_AnyDialect(tg, opts) ==
    IF Get(opts, "embed") = Null THEN Null
    ELSE IF Truthy(Get(opts, "embed")) THEN EmbedToJSON(Get(opts, "embed"))
    ELSE Undef

\* embed of the payload
PayloadEmbed(tg, opts) ==
    IF ~(isInteraction(tg) \/ isWebhook(tg))
    THEN IF Get(opts, "embed") = Null THEN Null ELSE First(Embeds(tg, opts))
    ELSE Undef

\* embeds of the payload
PayloadEmbeds(tg, opts) ==
    IF isInteraction(tg) \/ isWebhook(tg) THEN Arr(Embeds(tg, opts)) ELSE Undef

\* The object resolveData stores in this.data, or the error it throws, given the
\* content and the message reference it has computed.
Payload(tg, opts, content, message_reference) ==
    IF IsThrow(content) THEN content
    ELSE IF NonceError(opts) THEN Throw("MESSAGE_NONCE_TYPE")
    ELSE IF IsThrow(message_reference) THEN message_reference
    ELSE Obj([content |-> content,
              tts |-> Bool(Truthy(Get(opts, "tts"))),
              nonce |-> Get(opts, "nonce"),
              embed |-> PayloadEmbed(tg, opts),
              embeds |-> PayloadEmbeds(tg, opts),
              components |-> Components(opts),
              username |-> Username(tg, opts),
              avatar_url |-> AvatarURL(tg, opts),
              allowed_mentions |->
                  PayloadMentions(content, message_reference,
                                  WireMentions(MentionsSource(tg, opts)).wire),
              flags |-> Flags(tg, opts),
              message_reference |-> message_reference,
              attachments |-> Get(opts, "attachments")])

\* The object resolveData stores in this.data, or the error it throws.
BuildData(tg, opts) ==
    Payload(tg, opts, makeContent(opts), MessageReference(tg, opts))

\* The options object after resolveData: the allowed-mentions object it was given is
\* the one WireMentions leaves behind.
OptionsAfter(tg, opts) ==
    IF Get(opts, "allowedMentions") = Undef THEN opts
    ELSE Obj(With(opts.o, "allowedMentions",
                  WireMentions(MentionsSource(tg, opts)).source))

\* The target after resolveData: likewise for the client's default policy.
TargetAfter(tg, opts) ==
    IF Get(opts, "allowedMentions") = Undef
    THEN [tg EXCEPT !.client.options.allowedMentions =
                        WireMentions(MentionsSource(tg, opts)).source]
    ELSE tg

\* An APIMessage instance.
Instance(tg, opts, d, f) == [target |-> tg, options |-> opts, data |-> d, files |-> f]

\* The end of resolveData: d is stored in this.data unless it is a thrown error.
Stored(inst, d) ==
    IF IsThrow(d) THEN [this |-> inst, thrown |-> d.e, built |-> 0]
    ELSE [this |-> Instance(TargetAfter(inst.target, inst.options),
                            OptionsAfter(inst.target, inst.options),
                            d, inst.files),
          thrown |-> "none", built |-> 1]

\* resolveData() on an instance: the instance afterwards and the error thrown, if any.
resolveData(inst) ==
    IF inst.data # Null THEN [this |-> inst, thrown |-> "none", built |-> 0]
    ELSE Stored(inst, BuildData(inst.target, inst.options))

-----------------------------------------------------------------------------
(* APIMessage.split                                                        *)

\* The instance split() makes for a chunk that is not the last.
MinimalChunk(this, text) ==
    Instance(this.target,
             Obj([content |-> text,
                  tts |-> Get(this.data, "tts"),
                  allowedMentions |-> Get(this.options, "allowedMentions")]),
             Obj([content |-> text,
                  tts |-> Get(this.data, "tts"),
                  allowed_mentions |-> Get(this.options, "allowedMentions")]),
             Null)

\* The instance split() makes for the last chunk.
LastChunk(this, text) ==
    Instance(this.target,
             Obj(With(this.options.o, "content", text)),
             Obj(With(this.data.o, "content", text)),
             Null)

\* Chunk without the test for the last chunk: every chunk carries the full payload.
Chunk_AllFull(this, i, n) == LastChunk(this, this.data.o["content"].a[i])

\* The instance split() makes for chunk i of n.
Chunk(this, i, n) ==
    IF i = n THEN LastChunk(this, this.data.o["content"].a[i])
    ELSE MinimalChunk(this, this.data.o["content"].a[i])

\* The array split() returns for an instance whose data is built.
SplitBuilt(this) ==
    IF Get(this.data, "content").t # "array" THEN <<this>>
    ELSE [i \in 1..Len(Get(this.data, "content").a) |->
             Chunk(this, i, Len(Get(this.data, "content").a))]

\* SplitAfter that consumes the chunks: the original is left with the last chunk as
\* its content.
SplitAfter_Consuming(r) ==
    IF r.thrown # "none"
    THEN [this |-> r.this, built |-> 0, thrown |-> r.thrown, result |-> <<>>]
    ELSE [this |-> IF Get(r.this.data, "content").t = "array"
                   THEN [r.this EXCEPT !.data =
                            Obj(With(r.this.data.o, "content",
                                     r.this.data.o["content"].a[
                                         Len(r.this.data.o["content"].a)]))]
                   ELSE r.this,
          built |-> r.built, thrown |-> "none", result |-> SplitBuilt(r.this)]

\* split() once resolveData has run, with r what resolveData yielded.
SplitAfter(r) ==
    IF r.thrown # "none"
    THEN [this |-> r.this, built |-> 0, thrown |-> r.thrown, result |-> <<>>]
    ELSE [this |-> r.this, built |-> r.built, thrown |-> "none",
          result |-> SplitBuilt(r.this)]

\* split() on an instance: the instance afterwards, and the array returned or the
\* error thrown.
split(inst) == SplitAfter(resolveData(inst))

-----------------------------------------------------------------------------
(* APIMessage.resolveFile and APIMessage.resolveFiles                      *)

FILE_JPG == <<"f", "i", "l", "e", ".", "j", "p", "g">>

\* findName(thing)
findName(thing) ==
    IF thing.t = "string" THEN Str(basename(thing.s))
    ELSE IF thing.t = "stream" /\ thing.path # <<>> THEN Str(basename(thing.path))
    ELSE IF Truthy(Get(thing, "path")) THEN Str(basename(Get(thing, "path").s))
    ELSE Str(FILE_JPG)

\* ownAttachment: a string, a Buffer, or something with a pipe function.
ownAttachment(fileLike) == fileLike.t \in {"string", "buffer", "stream"}

\* The attachment and the name resolveFile settles on before it awaits the loader.
FileHead(fileLike) ==
    IF ownAttachment(fileLike)
    THEN [attachment |-> fileLike, name |-> findName(fileLike)]
    ELSE [attachment |-> Get(fileLike, "attachment"),
          name |-> OrElse(Get(fileLike, "name"), findName(Get(fileLike, "attachment")))]

\* What DataResolver.resolveFile(attachment) yields when it succeeds, and the error
\* it rejects with when it fails.
Resource(attachment) == [t |-> "resource", of |-> attachment]
LoadError(attachment) == [t |-> "error", of |-> attachment]

\* What resolveFile(fileLike) resolves to once the loader has answered.
ResolvedFile(fileLike) ==
    Obj([attachment |-> FileHead(fileLike).attachment,
         name |-> FileHead(fileLike).name,
         file |-> Resource(FileHead(fileLike).attachment)])

RECURSIVE Flatten(_)
Flatten(seqs) == IF seqs = <<>> THEN <<>> ELSE Head(seqs) \o Flatten(Tail(seqs))

\* fileLikes: options.files, then the files of each embed-like in order.
FileLikes(tg, opts) ==
    LET likes == EmbedLikes(tg, opts)
        own == IF Truthy(Get(opts, "files")) THEN Get(opts, "files").a ELSE <<>>
        ofEmbeds == [k \in 1..Len(likes) |->
                        IF Truthy(Get(likes[k], "files"))
                        THEN Get(likes[k], "files").a ELSE <<>>]
    IN own \o Flatten(ofEmbeds)

\* A resolveFiles call that found this.files set and returned at once.
CachedCall == [state |-> "returned", cached |-> TRUE, likes |-> <<>>,
               slots |-> <<>>, order |-> <<>>, fulfilled |-> 0,
               shuffled |-> FALSE, error |-> Null]

\* A resolveFiles call that has handed every file to resolveFile and awaits
\* Promise.all: slot k is Undef until the k-th promise is fulfilled, and order lists
\* the promises fulfilled so far, first fulfilled first. Once the call is over only
\* two facts about them are kept: how many were fulfilled, and whether they were
\* fulfilled in another order than that of the files.
PendingCall(likes) ==
    [state |-> "pending", cached |-> FALSE, likes |-> likes,
     slots |-> [k \in 1..Len(likes) |-> Undef], order |-> <<>>, fulfilled |-> 0,
     shuffled |-> FALSE, error |-> Null]

\* Whether a sequence of indices is not in increasing order.
Shuffled(order) == \E i, j \in DOMAIN order : i < j /\ order[i] > order[j]

\* AllValues that collects the values as they arrive.
AllValues_Arrival(call) ==
    Arr([i \in 1..Len(call.order) |-> call.slots[call.order[i]]])

\* The value Promise.all is fulfilled with: the value of each promise at the index
\* of the promise.
AllValues(call) == Arr([k \in 1..Len(call.likes) |-> call.slots[k]])

\* AllFulfilled that does not wait for the promises still pending.
AllFulfilled_Settled(call) == TRUE

\* Whether Promise.all of the call's promises is fulfilled.
AllFulfilled(call) == \A k \in 1..Len(call.slots) : call.slots[k] # Undef

-----------------------------------------------------------------------------
(* The inputs: targets and options.                                        *)

S(chars) == Str(chars)
ID42 == <<"4", "2">>
ID99 == <<"9", "9">>

\* An allowed-mentions policy with a repliedUser key, and one without.
MentionsA == Obj([parse |-> Arr(<<S(<<"u">>)>>), repliedUser |-> Bool(TRUE)])
MentionsB == Obj([parse |-> Arr(<<>>)])
MentionsC == Obj([users |-> Arr(<<>>), repliedUser |-> Bool(FALSE)])

Classes == {"TextChannel", "User", "Message", "Webhook", "Interaction"}

\* A target of a class: a Message resolves replies through its channel's messages,
\* every other target through its own.
Target(class, default) ==
    [class |-> class,
     name |-> S(<<"W">>),
     flags |-> [bitfield |-> 4],
     client |-> [options |-> [allowedMentions |-> default]],
     messages |-> IF class = "Message" THEN {} ELSE {ID42},
     channel |-> [messages |-> IF class = "Message" THEN {ID42} ELSE {}]]

Targets(classes, defaults) == {Target(c, d) : c \in classes, d \in defaults}

FileA == S(<<"d", "/", "A">>)
FileB == Obj([attachment |-> S(<<"d", "/", "x">>), name |-> S(<<"B">>)])
FileC == Stream(<<"u", "/", "C", "?", "v">>)
FileD == Obj([attachment |-> Buf(1)])
FileE == Buf(2)

Embed1 == Obj([title |-> S(<<"t">>), files |-> Arr(<<FileC>>)])
Embed2 == Obj([title |-> S(<<"u">>)])
Embed3 == Obj([title |-> S(<<"v">>), files |-> Arr(<<FileD>>)])
Embed4 == Obj([title |-> S(<<"w">>)])

Button == Obj([type |-> BUTTON])
Row == Obj([type |-> ACTION_ROW, components |-> Arr(<<Button>>)])

Short == <<"h", "i">>
Lines == <<"a", "b", NL, "c", "d", NL, "e", "f">>
Ticks == <<"a", TICK, TICK, TICK, "b">>

SplitSmall == Obj([maxLength |-> Num(3)])
SplitMid == Obj([maxLength |-> Num(5), prepend |-> S(<<">">>), append |-> S(<<"<">>)])
SplitFence == Obj([maxLength |-> Num(12)])

ReplyStr == Obj([messageReference |-> S(ID42)])
ReplyMsg == Obj([messageReference |-> Msg(ID42), failIfNotExists |-> Bool(FALSE)])
ReplyNullFlag == Obj([messageReference |-> S(ID42), failIfNotExists |-> Null])
ReplyMiss == Obj([messageReference |-> S(ID99)])
ReplyJunk == Obj([messageReference |-> Num(7), failIfNotExists |-> Bool(FALSE)])

OptionKeys ==
    {"content", "tts", "nonce", "embed", "embeds", "components", "files",
     "attachments", "allowedMentions", "reply", "ephemeral", "flags", "username",
     "avatarURL", "split", "code"}

\* An options object: the given keys, every other recognised key undefined.
Options(given) ==
    Obj([k \in OptionKeys |-> IF k \in DOMAIN given THEN given[k] ELSE Undef])

\* Options with everything a payload can carry set.
Rich ==
    [tts |-> Bool(TRUE), nonce |-> Num(5), embed |-> Embed2,
     embeds |-> Arr(<<Embed2, Embed4>>), components |-> Arr(<<Arr(<<Button>>)>>),
     attachments |-> Arr(<<Obj([id |-> S(<<"1">>)])>>), flags |-> Num(4),
     ephemeral |-> Bool(TRUE), username |-> S(<<"n">>)]

\* f with the keys of g set to g's values.
Merge(f, g) == [k \in DOMAIN f \cup DOMAIN g |-> IF k \in DOMAIN g THEN g[k] ELSE f[k]]

\* Content, splitting, mention policy and reply, on a rich payload.
InputsContent ==
    { <<tg, Options(Merge(Rich, [content |-> c, split |-> sp,
                                 allowedMentions |-> am, reply |-> rp]))>> :
        tg \in Targets(Classes, {Undef, MentionsC}),
        c \in {Undef, Null, S(Short), S(Lines)},
        sp \in {Undef, Bool(TRUE), SplitSmall},
        am \in {Undef, Null, MentionsA, MentionsB},
        rp \in {Undef, ReplyStr, ReplyMiss} }

\* Embed and embeds.
InputsEmbeds ==
    { <<tg, Options([content |-> c, split |-> SplitSmall, embed |-> e, embeds |-> es])>> :
        tg \in Targets(Classes, {Undef}),
        c \in {Undef, S(Lines)},
        e \in {Undef, Null, Embed1},
        es \in {Undef, Null, Arr(<<>>), Arr(<<Embed2, Embed1>>)} }

\* Flags and ephemeral.
InputsFlags ==
    { <<tg, Options([content |-> S(Short), flags |-> fl, ephemeral |-> ep])>> :
        tg \in Targets(Classes, {Undef}),
        fl \in {Undef, Null, Num(0), Num(2), Arr(<<Num(2), Num(66)>>)},
        ep \in {Undef, Bool(TRUE), Bool(FALSE)} }

\* Replies.
InputsReply ==
    { <<tg, Options([content |-> c, reply |-> rp])>> :
        tg \in Targets(Classes, {MentionsA}),
        c \in {Undef, S(Short)},
        rp \in {Undef, Null, Bool(TRUE), ReplyStr, ReplyMsg, ReplyNullFlag,
                ReplyMiss, ReplyJunk} }

\* Content formatting, nonce and the webhook's identity.
InputsFormat ==
    { <<tg, Options([content |-> c, code |-> cd, split |-> sp, nonce |-> nc,
                     username |-> un, avatarURL |-> S(<<"a">>), tts |-> Num(0),
                     components |-> Arr(<<Row>>)])>> :
        tg \in Targets({"TextChannel", "Webhook"}, {MentionsA}),
        c \in {Null, S(<<>>), S(Lines), S(Ticks), Num(3)},
        cd \in {Undef, Bool(FALSE), Bool(TRUE), S(<<"j">>)},
        sp \in {Bool(FALSE), SplitSmall, SplitMid, SplitFence},
        nc \in {Undef, S(<<"n">>), [t |-> "number", n |-> 1, frac |-> 5], Bool(TRUE)},
        un \in {Undef, S(<<"n">>)} }

Inputs == InputsContent \cup InputsEmbeds \cup InputsFlags \cup InputsReply
              \cup InputsFormat

\* Files, declared in the options and in the embeds: at most two of them, and the
\* three of a webhook message with two files and an embed that brings one.
InputsFiles ==
    { <<tg, Options([content |-> S(Short), files |-> fs, embed |-> e, embeds |-> es])>> :
        tg \in Targets({"TextChannel", "Webhook", "Interaction"}, {Undef}),
        fs \in {Undef, Arr(<<>>), Arr(<<FileE>>)},
        e \in {Undef, Embed3},
        es \in {Undef, Arr(<<Embed2, Embed1>>)} }
    \cup { <<Target("Webhook", Undef),
             Options([content |-> S(Lines), split |-> SplitSmall,
                      files |-> Arr(<<FileA, FileB>>), embeds |-> Arr(<<Embed1>>)])>> }

-----------------------------------------------------------------------------
(* The state machine: one instance, and the calls made on it.              *)

\* this
This == Instance(target, options, data, files)

InitWith(inputs) ==
    /\ \E in \in inputs : target = in[1] /\ options = in[2]
    /\ data = Null
    /\ files = Null
    /\ error = "none"
    /\ built = 0
    /\ calls = <<>>
    /\ loads = [k \in 1..Len(FileLikes(target, options)) |-> 0]
    /\ stores = 0
    /\ splits = <<>>

\* new APIMessage(target, options)
Init == InitWith(Inputs)

InitFiles == InitWith(InputsFiles)

\* The instance takes the state r.this.
Becomes(r) ==
    /\ target' = r.this.target
    /\ options' = r.this.options
    /\ data' = r.this.data
    /\ error' = r.thrown
    /\ built' = built + r.built

\* this.resolveData()
ResolveData ==
    /\ Becomes(resolveData(This))
    /\ UNCHANGED <<files, calls, loads, stores, splits>>

\* split() returns r.result, unless it threw.
Returns(r) ==
    /\ Becomes(r)
    /\ splits' = IF r.thrown = "none" THEN Append(splits, r.result) ELSE splits

\* this.split()
Split ==
    /\ Len(splits) < MaxSplits
    /\ Returns(split(This))
    /\ UNCHANGED <<files, calls, loads, stores>>

\* this.resolveFiles(), up to its await: it returns at once when this.files is set,
\* and otherwise hands every file to resolveFile, which calls the loader.
ResolveFilesCall ==
    /\ Len(calls) < MaxCalls
    /\ IF files # Null
       THEN /\ calls' = Append(calls, CachedCall)
            /\ UNCHANGED loads
       ELSE /\ calls' = Append(calls, PendingCall(FileLikes(target, options)))
            /\ loads' = [k \in DOMAIN loads |-> loads[k] + 1]
    /\ UNCHANGED <<target, options, data, files, error, built, stores, splits>>

\* The loader answers for file k of call c: the promise of resolveFile is fulfilled.
LoaderResolves(c, k) ==
    /\ calls[c].state = "pending"
    /\ calls[c].slots[k] = Undef
    /\ calls' = [calls EXCEPT ![c].slots[k] = ResolvedFile(calls[c].likes[k]),
                              ![c].order = Append(calls[c].order, k)]
    /\ UNCHANGED <<target, options, data, files, error, built, loads, stores, splits>>

\* The loader fails for file k of call c: the promise is rejected, Promise.all is
\* rejected with its error, and so is the resolveFiles call, which drops the values
\* its other promises were fulfilled with (fulfilled keeps how many there were).
LoaderRejects(c, k) ==
    /\ calls[c].state = "pending"
    /\ calls[c].slots[k] = Undef
    /\ calls' = [calls EXCEPT ![c].state = "rejected",
                              ![c].slots = <<>>,
                              ![c].order = <<>>,
                              ![c].fulfilled = Len(calls[c].order),
                              ![c].shuffled = Shuffled(calls[c].order),
                              ![c].error = LoadError(FileHead(calls[c].likes[k]).attachment)]
    /\ UNCHANGED <<target, options, data, files, error, built, loads, stores, splits>>

\* resolveFiles() after its await: the values of Promise.all are stored in this.files.
ResolveFilesResume(c) ==
    /\ calls[c].state = "pending"
    /\ AllFulfilled(calls[c])
    /\ files' = AllValues(calls[c])
    /\ stores' = stores + 1
    /\ calls' = [calls EXCEPT ![c].state = "returned",
                              ![c].slots = <<>>,
                              ![c].order = <<>>,
                              ![c].fulfilled = Len(calls[c].order),
                              ![c].shuffled = Shuffled(calls[c].order)]
    /\ UNCHANGED <<target, options, data, error, built, loads, splits>>

Next ==
    \/ ResolveData
    \/ Split
    \/ ResolveFilesCall
    \/ \E c \in DOMAIN calls : \E k \in DOMAIN calls[c].slots : LoaderResolves(c, k)
    \/ \E c \in DOMAIN calls : \E k \in DOMAIN calls[c].slots : LoaderRejects(c, k)
    \/ \E c \in DOMAIN calls : ResolveFilesResume(c)

Spec == Init /\ [][Next]_vars

SpecFiles == InitFiles /\ [][Next]_vars
-----------------------------------------------------------------------------
(* The claims.                                                             *)

\* The chunks of the split() calls made so far: <<s, i>> is the i-th instance of the
\* s-th call's result.
Returned == UNION {{<<s, i>> : i \in 1..Len(splits[s])} : s \in DOMAIN splits}

WebhookLike == target.class \in {"Webhook", "WebhookClient", "Interaction",
                                 "InteractionWebhook"}

\* The embed shape of a payload d of this instance: embeds an array and embed
\* undefined for a webhook or an interaction; otherwise embeds undefined and embed
\* null, undefined or the wire form of the embed option.
C1_Shape(d) ==
    IF WebhookLike
    THEN Get(d, "embeds").t = "array" /\ Get(d, "embed") = Undef
    ELSE /\ Get(d, "embeds") = Undef
         /\ Get(d, "embed") \in {Null, Undef, EmbedToJSON(Get(options, "embed"))}

\* Neither embed nor embeds is populated.
C1_NotBoth(d) ==
    ~(Get(d, "embed").t = "object" /\ Get(d, "embeds").t = "array")

\* C1 as stated: the payload resolveData stored and the payload of every instance
\* split() returned have the embed shape of the target's dialect.
C1_Original ==
    /\ data # Null => C1_Shape(data)
    /\ \A si \in Returned : C1_Shape(splits[si[1]][si[2]].data)

\* C1 (amended): the payload resolveData stored, and the payload of the last
\* instance of every split() result, have the embed shape of the target's dialect;
\* the payload of every other instance split() returned has neither an embed nor an
\* embeds key; no payload has both embed and embeds populated.
C1_EmbedDialect ==
    /\ data # Null => C1_Shape(data) /\ C1_NotBoth(data)
    /\ \A si \in Returned :
          LET d == splits[si[1]][si[2]].data
          IN /\ C1_NotBoth(d)
             /\ IF si[2] = Len(splits[si[1]])
                THEN C1_Shape(d)
                ELSE "embed" \notin Keys(d) /\ "embeds" \notin Keys(d)

\* A webhook's payload with embeds was split into several instances.
C1_Witness ==
    /\ target.class = "Webhook"
    /\ splits # <<>>
    /\ Len(splits[1]) >= 2
    /\ Get(data, "embeds").t = "array"
    /\ Len(Get(data, "embeds").a) = 2
    /\ Get(options, "embed") # Undef

\* C2 as stated: the payload is built at most once, this.files is stored at most
\* once, and each declared file is handed to the loader at most once, whatever calls
\* are made on the instance and however they overlap.
C2_ComputedOnce ==
    /\ built <= 1
    /\ stores <= 1
    /\ \A k \in DOMAIN loads : loads[k] <= 1

\* The embed-likes the options declare for the target's dialect.
C3_Embeds ==
    IF WebhookLike
    THEN IF Get(options, "embeds").t = "array" THEN Get(options, "embeds").a ELSE <<>>
    ELSE IF Get(options, "embed").t = "object" THEN <<Get(options, "embed")>> ELSE <<>>

\* The files of an embed-like.
C3_FilesOf(e) == IF Get(e, "files").t = "array" THEN Get(e, "files").a ELSE <<>>

\* The declared files: all of options.files, then the files of each embed.
C3_Declared ==
    C3_FilesOf(options) \o Flatten([k \in 1..Len(C3_Embeds) |-> C3_FilesOf(C3_Embeds[k])])

\* The name each file of the inputs resolves to.
C3_NameOf(f) ==
    CASE f = FileA -> S(<<"A">>)
      [] f = FileB -> S(<<"B">>)
      [] f = FileC -> S(<<"C">>)
      [] OTHER -> S(FILE_JPG)

\* The names of the stored files.
C3_Names == [k \in 1..Len(files.a) |-> Get(files.a[k], "name")]

C4_NoPartialList ==
    /\ files # Null =>
          /\ files.t = "array"
          /\ Len(files.a) = Len(loads)
          /\ \A k \in 1..Len(files.a) :
                /\ files.a[k].t = "object"
                /\ Get(files.a[k], "file") = Resource(Get(files.a[k], "attachment"))
          /\ \E c \in DOMAIN calls : calls[c].state = "returned" /\ ~calls[c].cached
    /\ \A c \in DOMAIN calls :
          calls[c].state = "rejected" =>
             \E k \in DOMAIN calls[c].likes :
                calls[c].error = LoadError(FileHead(calls[c].likes[k]).attachment)

\* A call was rejected after some of its files had been resolved, and no list is
\* stored.
C4_Witness ==
    /\ files = Null
    /\ \E c \in DOMAIN calls : calls[c].state = "rejected" /\ calls[c].fulfilled >= 2

\* C5: for a content of n chunks split() returns n instances of the same target,
\* the i-th with the i-th chunk as content; the last has the payload's keys and
\* values with only content replaced, every other has exactly the keys content,
\* tts and allowed_mentions.
C5_Chunks ==
    \A s \in DOMAIN splits :
        Get(data, "content").t = "array" =>
            LET chunks == Get(data, "content").a
                n == Len(chunks)
                r == splits[s]
            IN /\ Len(r) = n
               /\ \A i \in 1..n :
                     /\ r[i].target = target
                     /\ Get(r[i].data, "content") = chunks[i]
               /\ Keys(r[n].data) = Keys(data)
               /\ \A k \in Keys(data) \ {"content"} : r[n].data.o[k] = data.o[k]
               /\ \A i \in 1..(n - 1) :
                     Keys(r[i].data) = {"content", "tts", "allowed_mentions"}

\* A reply with components, flags, attachments and an embed was split into three.
C5_Witness ==
    /\ splits # <<>>
    /\ Len(splits[1]) = 3
    /\ target.class = "Message"
    /\ Get(splits[1][3].data, "components") # Undef
    /\ Get(splits[1][3].data, "message_reference") # Undef
    /\ Get(splits[1][3].data, "attachments") # Undef
    /\ Get(splits[1][3].data, "embed") # Undef

\* An instance without its files (an instance split() returns as it is, is the
\* original itself, whose files are whatever the original's are).
C6_Core(inst) == [target |-> inst.target, options |-> inst.options, data |-> inst.data]

C6_Cores(result) == [i \in 1..Len(result) |-> C6_Core(result[i])]

\* Every split() call so far returned the same.
C6_SameResults ==
    \A s, u \in DOMAIN splits : C6_Cores(splits[s]) = C6_Cores(splits[u])

\* For a content that is no array, split() returned the original alone.
C6_Single ==
    \A s \in DOMAIN splits :
        Get(data, "content").t # "array" => C6_Cores(splits[s]) = <<C6_Core(This)>>

\* split() on an instance split() returned yields that instance alone, unchanged.
C6_Resplit ==
    \A si \in Returned :
        LET inst == splits[si[1]][si[2]]
        IN split(inst).result = <<inst>> /\ split(inst).this = inst

\* A split() call on an instance whose payload is built changes nothing of it.
C6_Frame ==
    (data # Null /\ splits' # splits) =>
        /\ target' = target
        /\ options' = options
        /\ data' = data
        /\ files' = files

\* C6: split() leaves an instance whose payload is built as it is, so two calls
\* return equal results; it returns the original alone when the content is no
\* array; and split() on an instance it returned yields that instance alone.
C6_SplitFrame ==
    /\ [][C6_Frame]_vars
    /\ [](C6_SameResults /\ C6_Single /\ C6_Resplit)

\* split() was called twice on an instance whose content is three chunks.
C6_Witness ==
    /\ Len(splits) = 2
    /\ Len(splits[1]) = 3
    /\ Len(splits[2]) = 3

\* The policy in force: the option when it is given, the client's default otherwise.
C10_Policy ==
    IF Get(options, "allowedMentions") # Undef
    THEN Get(options, "allowedMentions")
    ELSE target.client.options.allowedMentions

\* The allowed_mentions of a payload, when it is an object, is in wire form: it has
\* replied_user with the repliedUser of the policy it comes from, and no repliedUser.
C7_Wired(d) ==
    LET am == Get(d, "allowed_mentions")
    IN am.t = "object" =>
          /\ "repliedUser" \notin Keys(am)
          /\ Get(am, "replied_user") = Get(C10_Policy, "repliedUser")
          /\ Get(C10_Policy, "repliedUser") # Undef => "replied_user" \in Keys(am)

\* C7 as stated: the payload resolveData stored and the payload of every instance
\* split() returned carry allowed_mentions in wire form.
C7_WireForm ==
    /\ data # Null => C7_Wired(data)
    /\ \A si \in Returned : C7_Wired(splits[si[1]][si[2]].data)

\* The message collection a reply is resolved through.
C8_Collection ==
    IF target.class = "Message" THEN target.channel.messages ELSE target.messages

\* C8: for a reply object no error comes of the reply, and the stored payload's
\* message_reference is {message_id, fail_if_not_exists} for the identifier the
\* collection resolves (fail_if_not_exists being true when not given), or undefined
\* when it resolves none.
C8_ReplyReference ==
    LET reply == Get(options, "reply")
        id == resolveID(C8_Collection, Get(reply, "messageReference"))
        given == Get(reply, "failIfNotExists")
    IN reply.t = "object" =>
          /\ error # "TypeError"
          /\ data # Null =>
                Get(data, "message_reference") =
                    IF id # Null
                    THEN Obj([message_id |-> id,
                              fail_if_not_exists |->
                                  IF given \in {Undef, Null} THEN Bool(TRUE) ELSE given])
                    ELSE Undef

\* A reply to a message given as a Message instance, on a message target, with
\* failIfNotExists false.
C8_Witness ==
    /\ data # Null
    /\ target.class = "Message"
    /\ Get(data, "message_reference")
          = Obj([message_id |-> S(ID42), fail_if_not_exists |-> Bool(FALSE)])

\* A reply the collection does not resolve: no reference, and no error.
C8_WitnessMiss ==
    /\ data # Null
    /\ Get(options, "reply") = ReplyMiss
    /\ Get(data, "message_reference") = Undef
    /\ error = "none"

\* C9: flags of the stored payload: for a message target the explicit flags, or else
\* the message's own bit field; for an interaction with a truthy ephemeral the
\* ephemeral bit alone; unset in every other case.
C9_Flags ==
    data # Null =>
        Get(data, "flags") =
            IF target.class = "Message"
            THEN IF Get(options, "flags") \in {Undef, Null}
                 THEN Num(target.flags.bitfield)
                 ELSE Num(ResolveBits(Get(options, "flags")))
            ELSE IF target.class \in {"Interaction", "InteractionWebhook"}
                    /\ Truthy(Get(options, "ephemeral"))
                 THEN Num(64)
                 ELSE Undef

\* A message target whose explicit flags are 0: the payload's flags are 0, not the
\* message's.
C9_Witness ==
    /\ data # Null
    /\ target.class = "Message"
    /\ target.flags.bitfield # 0
    /\ Get(options, "flags") = Num(0)
    /\ Get(data, "flags") = Num(0)

\* The wire form of an allowed-mentions policy.
C10_Wire(am) ==
    IF am.t = "object"
    THEN Obj([k \in (Keys(am) \ {"repliedUser"}) \cup {"replied_user"} |->
                 IF k = "replied_user" THEN Get(am, "repliedUser") ELSE am.o[k]])
    ELSE am

\* Both content and message_reference are absent from the stored payload.
C10_Bare == Get(data, "content") = Undef /\ Get(data, "message_reference") = Undef

\* C10 as stated: allowed_mentions is undefined exactly when content and
\* message_reference are both absent, and otherwise the wire form of the policy.
C10_Original ==
    data # Null =>
        /\ Get(data, "allowed_mentions") = Undef <=> C10_Bare
        /\ ~C10_Bare => Get(data, "allowed_mentions") = C10_Wire(C10_Policy)

\* C10 (amended): allowed_mentions is undefined when content and message_reference
\* are both absent, and otherwise the wire form of the policy in force, which is
\* undefined too when the option is undefined and the client has no default.
C10_Mentions ==
    data # Null =>
        Get(data, "allowed_mentions") = IF C10_Bare THEN Undef ELSE C10_Wire(C10_Policy)

\* An explicit null policy on a client that has a default: the payload has null.
C10_Witness ==
    /\ data # Null
    /\ Get(options, "allowedMentions") = Null
    /\ target.client.options.allowedMentions # Undef
    /\ ~C10_Bare
    /\ Get(data, "allowed_mentions") = Null
====
